---- MODULE Spec2Model ----
(***************************************************************************)
(* Password-reset token lifecycle of the accounts app: the cache-backed    *)
(* reset-token store (accounts/utils.py), the forgot-password and          *)
(* reset-password views (accounts/views.py) with their serializers         *)
(* (accounts/serializers.py) and the user table (accounts/models.py).      *)
(* Request handlers run concurrently; every access to the shared cache or  *)
(* to the user table is one step of the handler that makes it.             *)
(***************************************************************************)
EXTENDS Integers, FiniteSets, Sequences, TLC

VARIABLES
    users,        \* user table: email -> stored password hash
    cache,        \* django cache: key -> [value, deadline]
    now,          \* wall clock, in seconds
    proc,         \* per request handler: operation, position, locals
    done,         \* the call that completed last: operation, token, result
    lastIssue,    \* history: token -> email and end of life of the latest store_reset_token
    redeemCount,  \* history: token -> successful verifications since that store
    gen           \* a call of generate_reset_token: position, length, characters so far

vars == <<users, cache, now, proc, done, lastIssue, redeemCount, gen>>

----------------------------------------------------------------------------
(* Bounds of the model *)

\* The clock stops after MaxTicks ticks.
MaxTicks == 2

\* The longest token asked of generate_reset_token.
MaxLength == 2

\* Accounts of the user table at the start, and the addresses that requests
\* and callers name: one that has an account and one that has none.
Registered == {"a@x.com", "b@x.com"}
Emails == {"a@x.com", "n@x.com"}
MalformedEmail == "not-an-email"
EmailInputs == Emails \cup {MalformedEmail}
Tokens == {"t1", "t2"}
Passwords == {"new"}
ConfirmInputs == {"new", "typo"}
Procs == {1, 2}
ExpiryChoices == {1, 10}
TickSteps == {300}
MaxTime == MaxTicks * 300

----------------------------------------------------------------------------
(* Program constants *)

DefaultExpiryMinutes == 10
SecondsPerMinute == 60

None == "None"

\* Python truthiness of a str | None value, as tested by "if email:" / "if not email:".
Truthy(v) == v # None /\ v # ""

----------------------------------------------------------------------------
(* The cache behind django.core.cache.cache *)

\* cache.set(key, value, timeout=...): binds key, replacing any earlier entry.
cache_set(c, key, value, timeout, t) ==
    [k \in (DOMAIN c) \cup {key} |->
        IF k = key THEN [value |-> value, deadline |-> t + timeout] ELSE c[k]]

\* cache.get(key): the value, or None for a key that is not there.
cache_get(c, key) == IF key \in DOMAIN c THEN c[key].value ELSE None

\* cache.delete(key)
cache_delete(c, key) == [k \in (DOMAIN c) \ {key} |-> c[k]]

\* Variant: a cache that never expires an entry.
cache_expire_never(c, t) == c

\* Per-key expiry done by the cache itself: at time t an entry whose deadline
\* has been reached is gone.
cache_expire(c, t) == [k \in {j \in DOMAIN c : t < c[j].deadline} |-> c[k]]

----------------------------------------------------------------------------
(* accounts/utils.py *)

CacheKey(token) == <<"password_reset", token>>

\* Variant: the token is stored as the value, in place of the email.
store_reset_token_value_swapped(c, email, token, expiry_minutes, t) ==
    cache_set(c, CacheKey(token), token, expiry_minutes * SecondsPerMinute, t)

\* Variant: the timeout is taken in hours.
store_reset_token_hours(c, email, token, expiry_minutes, t) ==
    cache_set(c, CacheKey(token), email,
              expiry_minutes * SecondsPerMinute * SecondsPerMinute, t)

\* Variant: a new token for an email replaces the tokens that email had.
store_reset_token_one_per_email(c, email, token, expiry_minutes, t) ==
    cache_set([k \in {j \in DOMAIN c : c[j].value # email} |-> c[k]],
              CacheKey(token), email, expiry_minutes * SecondsPerMinute, t)

store_reset_token(c, email, token, expiry_minutes, t) ==
    cache_set(c, CacheKey(token), email, expiry_minutes * SecondsPerMinute, t)

\* verify_reset_token, first half: email = cache.get(cache_key)
verify_lookup(c, token) == cache_get(c, CacheKey(token))

\* Variant: the entry is left in the cache.
verify_consume_keep(c, token) == c

\* verify_reset_token, second half: cache.delete(cache_key)
verify_consume(c, token) == cache_delete(c, CacheKey(token))

----------------------------------------------------------------------------
(* accounts/models.py, accounts/serializers.py *)

\* user.set_password(raw): the stored value is a hash of the raw password.
set_password(raw) == <<"hash", raw>>

\* UserManager.create_user
create_user(u, email, password) ==
    [e \in (DOMAIN u) \cup {email} |->
        IF e = email THEN set_password(password) ELSE u[e]]

\* serializers.EmailField(): the value has the form of an email address.
EmailField_valid(value) == value # MalformedEmail /\ value # "" /\ value # None

\* Module-level function of serializers.py. It is not a method of
\* ForgotPasswordSerializer, so no serializer runs it.
validate_email(u, value) == value \in DOMAIN u

\* Module-level function of serializers.py. It is not a method of
\* UserRegistrationSerializer, so no serializer runs it.
validate(password, password_confirm) == password = password_confirm

\* ForgotPasswordSerializer(data).is_valid(): the one declared field.
ForgotPasswordSerializer_is_valid(u, email) == EmailField_valid(email)

\* serializers.CharField(): a required field; None stands for a field the
\* request does not carry.
CharField_valid(value) == value # None /\ value # ""

\* Variant: the fields are checked and validate() is not run.
ResetPasswordSerializer_fields_only(token, new_password, confirm_password) ==
    /\ CharField_valid(token)
    /\ CharField_valid(new_password)
    /\ CharField_valid(confirm_password)

\* ResetPasswordSerializer(data).is_valid(): the three fields, then validate().
ResetPasswordSerializer_is_valid(token, new_password, confirm_password) ==
    /\ CharField_valid(token)
    /\ CharField_valid(new_password)
    /\ CharField_valid(confirm_password)
    /\ new_password = confirm_password

\* serializer.errors of ResetPasswordSerializer: field errors come first,
\* validate() runs only on fields that are all there.
ResetPasswordSerializer_errors(token, new_password, confirm_password) ==
    IF /\ CharField_valid(token)
       /\ CharField_valid(new_password)
       /\ CharField_valid(confirm_password)
    THEN "Passwords don't match"
    ELSE "This field is required."

\* UserRegistrationSerializer(data).is_valid(): the model fields; email is unique.
UserRegistrationSerializer_is_valid(u, email, password, password_confirm) ==
    EmailField_valid(email) /\ email \notin DOMAIN u

----------------------------------------------------------------------------
(* Request handlers *)

NoResp == [status |-> 0, body |-> ""]

Response(status, body) == [status |-> status, body |-> body]

\* A handler that is not inside a request.
Idle == [op |-> "none", pc |-> "idle", token |-> None, email |-> None,
         new_password |-> None]

Running(op, pc, token, email, new_password) ==
    [op |-> op, pc |-> pc, token |-> token, email |-> email,
     new_password |-> new_password]

\* What a completed call gave its caller: the value a function returned,
\* the response a view returned.
Done(op, token, ret, resp) == [op |-> op, token |-> token, ret |-> ret, resp |-> resp]

Init ==
    /\ users = [e \in Registered |-> set_password("old")]
    /\ cache = << >>
    /\ now = 0
    /\ proc = [p \in Procs |-> Idle]
    /\ done = Done("none", None, None, NoResp)
    /\ lastIssue = << >>
    /\ redeemCount = [t \in Tokens |-> 0]
    /\ gen = [pc |-> "idle", length |-> 0, out |-> << >>]

Issued(h, token, email, minutes, t) ==
    [k \in (DOMAIN h) \cup {token} |->
        IF k = token
        THEN [email |-> email, until |-> t + minutes * SecondsPerMinute]
        ELSE h[k]]

\* Time passes; the cache drops the entries whose deadline is reached.
Tick(d) ==
    /\ now + d <= MaxTime
    /\ now' = now + d
    /\ cache' = cache_expire(cache, now + d)
    /\ UNCHANGED <<gen, users, proc, done, lastIssue, redeemCount>>

\* A direct call store_reset_token(email, token, expiry_minutes).
StoreResetToken(p, email, token, minutes) ==
    /\ proc[p].pc = "idle"
    /\ cache' = store_reset_token(cache, email, token, minutes, now)
    /\ done' = Done("store", token, "True", NoResp)
    /\ lastIssue' = Issued(lastIssue, token, email, minutes, now)
    /\ redeemCount' = [redeemCount EXCEPT ![token] = 0]
    /\ UNCHANGED <<gen, users, now, proc>>

\* A direct call verify_reset_token(token), up to and including cache.get.
VerifyResetToken(p, token) ==
    /\ proc[p].pc = "idle"
    /\ LET email == verify_lookup(cache, token) IN
        IF Truthy(email)
        THEN /\ proc' = [proc EXCEPT ![p] =
                    Running("verify", "verify_delete", token, email, None)]
             /\ UNCHANGED done
        ELSE /\ done' = Done("verify", token, None, NoResp)
             /\ UNCHANGED proc
    /\ UNCHANGED <<gen, users, cache, now, lastIssue, redeemCount>>

\* The response of ResetPasswordView.post to a token that did not verify.
invalid_token_response == Response(400, "Invalid or expired token")

\* verify_reset_token after a truthy cache.get: cache.delete, return email.
\* Inside ResetPasswordView.post the handler goes on to the user lookup.
VerifyDelete(p) ==
    /\ proc[p].pc = "verify_delete"
    /\ cache' = verify_consume(cache, proc[p].token)
    /\ redeemCount' = [redeemCount EXCEPT ![proc[p].token] = @ + 1]
    /\ IF proc[p].op = "reset"
       THEN /\ proc' = [proc EXCEPT ![p] =
                    Running("reset", "set_password", None, proc[p].email,
                            proc[p].new_password)]
            /\ UNCHANGED done
       ELSE /\ proc' = [proc EXCEPT ![p] = Idle]
            /\ done' = Done("verify", proc[p].token, proc[p].email, NoResp)
    /\ UNCHANGED <<gen, users, now, lastIssue>>

\* ResetPasswordView.post, up to and including the cache.get of
\* verify_reset_token: request validation, then the lookup of the token.
ResetPasswordPost(p, token, new_password, confirm_password) ==
    /\ proc[p].pc = "idle"
    /\ IF ~ResetPasswordSerializer_is_valid(token, new_password, confirm_password)
       THEN /\ done' = Done("reset", token, None,
                            Response(400, ResetPasswordSerializer_errors(
                                              token, new_password, confirm_password)))
            /\ UNCHANGED proc
       ELSE LET email == verify_lookup(cache, token) IN
            IF Truthy(email)
            THEN /\ proc' = [proc EXCEPT ![p] =
                        Running("reset", "verify_delete", token, email, new_password)]
                 /\ UNCHANGED done
            ELSE /\ done' = Done("reset", token, None, invalid_token_response)
                 /\ UNCHANGED proc
    /\ UNCHANGED <<gen, users, cache, now, lastIssue, redeemCount>>

\* Variant: the new password is written to every account.
reset_user_password_all(u, email, new_password) ==
    [e \in DOMAIN u |-> set_password(new_password)]

\* user = User.objects.get(email=email); user.set_password(new_password); user.save()
reset_user_password(u, email, new_password) ==
    IF email \in DOMAIN u
    THEN [u EXCEPT ![email] = set_password(new_password)]
    ELSE u

\* The response of ResetPasswordView.post after the token verified.
reset_user_response(u, email) ==
    IF email \in DOMAIN u
    THEN Response(200, "Password reset successfully")
    ELSE Response(400, "User not found")

\* ResetPasswordView.post after verify_reset_token returned an email.
ResetSetPassword(p) ==
    /\ proc[p].pc = "set_password"
    /\ users' = reset_user_password(users, proc[p].email, proc[p].new_password)
    /\ proc' = [proc EXCEPT ![p] = Idle]
    /\ done' = Done("reset", None, proc[p].email,
                    reset_user_response(users, proc[p].email))
    /\ UNCHANGED <<gen, cache, now, lastIssue, redeemCount>>

\* generate_reset_token(): any string over the alphabet may come out.
generate_reset_token == Tokens

\* ForgotPasswordView.post up to the call of send_password_reset_email:
\* request validation, generate_reset_token, store_reset_token.
ForgotPasswordPost(p, email, token) ==
    /\ proc[p].pc = "idle"
    /\ token \in generate_reset_token
    /\ IF ForgotPasswordSerializer_is_valid(users, email)
       THEN /\ cache' = store_reset_token(cache, email, token, DefaultExpiryMinutes, now)
            /\ proc' = [proc EXCEPT ![p] =
                    Running("forgot", "send_mail", token, email, None)]
            /\ lastIssue' = Issued(lastIssue, token, email, DefaultExpiryMinutes, now)
            /\ redeemCount' = [redeemCount EXCEPT ![token] = 0]
            /\ UNCHANGED done
       ELSE /\ done' = Done("forgot", None, None,
                            Response(400, "Enter a valid email address."))
            /\ UNCHANGED <<cache, proc, lastIssue, redeemCount>>
    /\ UNCHANGED <<gen, users, now>>

\* The response of ForgotPasswordView.post to the notifier's outcome.
forgot_response(sent) ==
    IF sent
    THEN Response(200, "Password reset email sent successfully")
    ELSE Response(500, "Failed to send email. Please try again later.")

\* Variant: a token whose mail could not be sent is withdrawn.
forgot_after_send_withdraw(c, token, sent) ==
    IF sent THEN c ELSE cache_delete(c, CacheKey(token))

\* What ForgotPasswordView.post does to the cache once
\* send_password_reset_email has returned: nothing.
forgot_after_send(c, token, sent) == c

\* ForgotPasswordView.post from send_password_reset_email on; send_mail
\* succeeds (True) or raises (False).
ForgotSendMail(p, sent) ==
    /\ proc[p].pc = "send_mail"
    /\ cache' = forgot_after_send(cache, proc[p].token, sent)
    /\ proc' = [proc EXCEPT ![p] = Idle]
    /\ done' = Done("forgot", proc[p].token, None, forgot_response(sent))
    /\ UNCHANGED <<gen, users, now, lastIssue, redeemCount>>

\* UserRegistrationView.post
RegisterPost(p, email, password, password_confirm) ==
    /\ proc[p].pc = "idle"
    /\ IF UserRegistrationSerializer_is_valid(users, email, password, password_confirm)
       THEN /\ users' = create_user(users, email, password)
            /\ done' = Done("register", None, None,
                            Response(201, "User registered successfully"))
       ELSE /\ done' = Done("register", None, None, Response(400, "serializer.errors"))
            /\ UNCHANGED users
    /\ UNCHANGED <<gen, cache, now, proc, lastIssue, redeemCount>>

\* string.ascii_lowercase, string.ascii_uppercase, string.digits
ascii_lowercase ==
    <<"a", "b", "c", "d", "e", "f", "g", "h", "i", "j", "k", "l", "m",
       "n", "o", "p", "q", "r", "s", "t", "u", "v", "w", "x", "y", "z">>

ascii_uppercase ==
    <<"A", "B", "C", "D", "E", "F", "G", "H", "I", "J", "K", "L", "M",
       "N", "O", "P", "Q", "R", "S", "T", "U", "V", "W", "X", "Y", "Z">>

digits ==
    <<"0", "1", "2", "3", "4", "5", "6", "7", "8", "9">>

\* string.ascii_letters
ascii_letters == ascii_lowercase \o ascii_uppercase

\* Variant: punctuation is part of the alphabet.
alphabet_with_punctuation == ascii_letters \o digits \o <<"-", "_">>

\* alphabet = string.ascii_letters + string.digits
alphabet == ascii_letters \o digits

\* secrets.choice(seq): any element of seq may come out.
secrets_choice(seq) == {seq[i] : i \in 1..Len(seq)}

\* A call generate_reset_token(length).
GenerateResetToken(length) ==
    /\ gen.pc \in {"idle", "returned"}
    /\ gen' = [pc |-> "loop", length |-> length, out |-> << >>]
    /\ UNCHANGED <<users, cache, now, proc, done, lastIssue, redeemCount>>

\* One round of "for _ in range(length)": one more character.
GenerateChoice(ch) ==
    /\ gen.pc = "loop"
    /\ Len(gen.out) < gen.length
    /\ ch \in secrets_choice(alphabet)
    /\ gen' = [gen EXCEPT !.out = Append(@, ch)]
    /\ UNCHANGED <<users, cache, now, proc, done, lastIssue, redeemCount>>

\* range(length) is used up: ''.join(...) is returned.
GenerateReturn ==
    /\ gen.pc = "loop"
    /\ Len(gen.out) >= gen.length
    /\ gen' = [gen EXCEPT !.pc = "returned"]
    /\ UNCHANGED <<users, cache, now, proc, done, lastIssue, redeemCount>>

\* What a reset-password request may carry in each field; None: no such field.
ResetTokenInputs == Tokens \cup {None}
ResetPasswordInputs == Passwords \cup {None}
ResetConfirmInputs == ConfirmInputs \cup {None}

\* The service: the views, called by concurrent clients, and the clock.
Next ==
    \/ \E d \in TickSteps : Tick(d)
    \/ \E p \in Procs, e \in EmailInputs, t \in Tokens : ForgotPasswordPost(p, e, t)
    \/ \E p \in Procs, sent \in BOOLEAN : ForgotSendMail(p, sent)
    \/ \E p \in Procs, t \in Tokens, np \in Passwords, cp \in ConfirmInputs :
            ResetPasswordPost(p, t, np, cp)
    \/ \E p \in Procs : VerifyDelete(p)
    \/ \E p \in Procs : ResetSetPassword(p)

Spec == Init /\ [][Next]_vars

\* The token store on its own: store_reset_token and verify_reset_token
\* called directly by concurrent callers, and the clock.
StoreNext ==
    \/ \E d \in TickSteps : Tick(d)
    \/ \E p \in Procs, e \in Emails, t \in Tokens, m \in ExpiryChoices :
            StoreResetToken(p, e, t, m)
    \/ \E p \in Procs, t \in Tokens : VerifyResetToken(p, t)
    \/ \E p \in Procs : VerifyDelete(p)

StoreSpec == Init /\ [][StoreNext]_vars

\* The token store under a fair clock and fair threads: the clock goes on to
\* the end of the modelled time, a thread that has read an entry goes on to
\* its delete, and a token is stored only while its deadline lies within the
\* modelled time.
LiveNext ==
    \/ \E d \in TickSteps : Tick(d)
    \/ \E p \in Procs, e \in Emails, t \in Tokens, m \in ExpiryChoices :
            /\ now + m * SecondsPerMinute <= MaxTime
            /\ StoreResetToken(p, e, t, m)
    \/ \E p \in Procs, t \in Tokens : VerifyResetToken(p, t)
    \/ \E p \in Procs : VerifyDelete(p)

LiveSpec ==
    /\ Init
    /\ [][LiveNext]_vars
    /\ WF_vars(\E d \in TickSteps : Tick(d))
    /\ \A p \in Procs : WF_vars(VerifyDelete(p))

\* Registration next to the password-reset requests: accounts come into
\* being while tokens are issued and redeemed by one client after the other,
\* in requests that may lack a field.
RegistrationNext ==
    \/ \E d \in TickSteps : Tick(d)
    \/ \E e \in EmailInputs, pw \in Passwords, pc \in ConfirmInputs :
            RegisterPost(1, e, pw, pc)
    \/ \E e \in EmailInputs, t \in Tokens : ForgotPasswordPost(1, e, t)
    \/ \E sent \in BOOLEAN : ForgotSendMail(1, sent)
    \/ \E t \in ResetTokenInputs, np \in ResetPasswordInputs,
            cp \in ResetConfirmInputs :
            ResetPasswordPost(1, t, np, cp)
    \/ VerifyDelete(1)
    \/ ResetSetPassword(1)

RegistrationSpec == Init /\ [][RegistrationNext]_vars

\* The token generator on its own, called with lengths 0..MaxLength.
GenNext ==
    \/ \E length \in 0..MaxLength : GenerateResetToken(length)
    \/ \E ch \in secrets_choice(alphabet) : GenerateChoice(ch)
    \/ GenerateReturn

GenSpec == Init /\ [][GenNext]_vars

----------------------------------------------------------------------------
(* Properties of the token store, checked under StoreSpec *)

\* A call verify_reset_token(token) that returns None at once and touches nothing.
ReturnsAbsent(token) ==
    /\ done' = Done("verify", token, None, NoResp)
    /\ proc' = proc
    /\ cache' = cache

\* C1: of the verify_reset_token calls made on one stored token, exactly one
\* returns the bound email and every other one returns None: no token is
\* redeemed with success twice.
C1_AtMostOneRedeemer == \A t \in Tokens : redeemCount[t] <= 1

\* C2: store_reset_token(e, t) followed by verify_reset_token(t) before the
\* TTL elapses, with no redeem of t in between, returns exactly e: the lookup
\* finds e, and the call returns what its lookup found.
C2_StoreThenVerifyReturnsEmail ==
    [][/\ \A p \in Procs, t \in Tokens :
            ( /\ VerifyResetToken(p, t)
              /\ t \in DOMAIN lastIssue
              /\ now < lastIssue[t].until
              /\ redeemCount[t] = 0 )
            => /\ proc'[p].pc = "verify_delete"
               /\ proc'[p].token = t
               /\ proc'[p].email = lastIssue[t].email
       /\ \A p \in Procs :
            (VerifyDelete(p) /\ proc[p].op = "verify")
            => done' = Done("verify", proc[p].token, proc[p].email, NoResp)
      ]_vars

\* C2 witness: the last call was a verify_reset_token that returned the email
\* of the latest store of its token, the first redeem since that store.
C2_Witness ==
    /\ done.op = "verify"
    /\ done.token \in DOMAIN lastIssue
    /\ done.ret = lastIssue[done.token].email
    /\ redeemCount[done.token] = 1

\* C3: once a verify_reset_token(t) has returned the bound email, every
\* verify_reset_token(t) called later, with no new store of t, returns None.
C3_SingleUse ==
    [][\A p \in Procs, t \in Tokens :
            (VerifyResetToken(p, t) /\ redeemCount[t] >= 1) => ReturnsAbsent(t)
      ]_vars

\* C3 witness: a token was redeemed and a later verify of it returned None.
C3_Witness ==
    \E t \in Tokens :
        /\ redeemCount[t] >= 1
        /\ done = Done("verify", t, None, NoResp)
        /\ \A p \in Procs : proc[p].pc = "idle"

\* C4: a token stored with a TTL of d minutes and not redeemed is absent to
\* every verify_reset_token called after time issue + d.
C4_AbsentAfterTTL ==
    [][\A p \in Procs, t \in Tokens :
            ( /\ VerifyResetToken(p, t)
              /\ t \in DOMAIN lastIssue
              /\ now > lastIssue[t].until )
            => ReturnsAbsent(t)
      ]_vars

\* C4 witness: a token never redeemed, past its deadline, was verified: None.
C4_Witness ==
    \E t \in DOMAIN lastIssue :
        /\ now > lastIssue[t].until
        /\ redeemCount[t] = 0
        /\ done = Done("verify", t, None, NoResp)

\* C7: verify_reset_token returns None and leaves the cache as it is for a
\* token never issued, for a token already redeemed and for an expired
\* token alike.
C7_AbsenceIndistinguishable ==
    [][\A p \in Procs, t \in Tokens :
            ( /\ VerifyResetToken(p, t)
              /\ \/ t \notin DOMAIN lastIssue
                 \/ redeemCount[t] >= 1
                 \/ now >= lastIssue[t].until )
            => ReturnsAbsent(t)
      ]_vars

\* C7 witness: the three cases side by side. One token was never issued and
\* its verify returned None; the other one was issued and is redeemed or expired.
C7_Witness ==
    \E t \in Tokens, o \in Tokens :
        /\ t \notin DOMAIN lastIssue
        /\ done = Done("verify", t, None, NoResp)
        /\ o \in DOMAIN lastIssue
        /\ redeemCount[o] >= 1 \/ now >= lastIssue[o].until
        /\ CacheKey(o) \notin DOMAIN cache

----------------------------------------------------------------------------
(* Properties of the views, checked under Spec *)

\* The cache entry of a token: its email and deadline, or None.
Entry(c, token) ==
    IF CacheKey(token) \in DOMAIN c
    THEN <<c[CacheKey(token)].value, c[CacheKey(token)].deadline>>
    ELSE <<None, 0>>

\* C5: a forgot-password request for an email that has no account is
\* answered 400, and no token is written to the cache for it.
C5_NoTokenForUnknownEmail ==
    [][\A p \in Procs, e \in EmailInputs, t \in Tokens :
            (ForgotPasswordPost(p, e, t) /\ e \notin DOMAIN users)
            => /\ cache' = cache
               /\ done'.op = "forgot"
               /\ done'.resp.status = 400
      ]_vars

\* C6: when reset-password redeems a live token whose email has no account,
\* the response is the one given for an invalid or expired token.
C6_UnknownAccountLooksLikeInvalidToken ==
    [][\A p \in Procs :
            (ResetSetPassword(p) /\ proc[p].email \notin DOMAIN users)
            => done'.resp = invalid_token_response
      ]_vars

\* C8: forgot-password writes the token to the cache before it calls the
\* notifier, and a notifier that fails (HTTP 500) leaves the cache as it is:
\* the token is not removed.
C8_TokenSurvivesNotifierFailure ==
    [][/\ \A p \in Procs, e \in Emails, t \in Tokens :
            ForgotPasswordPost(p, e, t)
            => /\ Entry(cache', t) = <<e, now + DefaultExpiryMinutes * SecondsPerMinute>>
               /\ proc'[p].pc = "send_mail"
               /\ done' = done
       /\ \A p \in Procs, sent \in BOOLEAN :
            ForgotSendMail(p, sent)
            => /\ proc[p].token \in DOMAIN lastIssue
               /\ cache' = cache
               /\ done'.resp.status = IF sent THEN 200 ELSE 500
      ]_vars

\* C8 witness: forgot-password answered 500 and its token is live in the
\* cache, bound to the email it was issued for.
C8_Witness ==
    /\ done.op = "forgot"
    /\ done.resp.status = 500
    /\ done.token \in DOMAIN lastIssue
    /\ redeemCount[done.token] = 0
    /\ verify_lookup(cache, done.token) = lastIssue[done.token].email

\* C9: issuing a token does not touch the entries of the other tokens, of
\* the same account or not, and redeeming a token leaves the other tokens
\* as they are: each stays bound to its email until its own deadline.
C9_TokensIndependent ==
    [][/\ \A p \in Procs, e \in Emails, t \in Tokens :
            ForgotPasswordPost(p, e, t)
            => \A o \in Tokens \ {t} : Entry(cache', o) = Entry(cache, o)
       /\ \A p \in Procs :
            VerifyDelete(p)
            => \A o \in Tokens \ {proc[p].token} : Entry(cache', o) = Entry(cache, o)
      ]_vars

\* C9 witness: two tokens were issued for one account; one of them has been
\* redeemed and the other one is still live and bound to that account.
C9_Witness ==
    \E t \in DOMAIN lastIssue, o \in DOMAIN lastIssue :
        /\ t # o
        /\ lastIssue[t].email = lastIssue[o].email
        /\ redeemCount[t] = 1
        /\ redeemCount[o] = 0
        /\ verify_lookup(cache, o) = lastIssue[o].email

\* C10: reset-password overwrites the password of account A only in a
\* request whose token was in the cache, bound to A, when the request looked
\* it up; a request whose token is absent is answered 400 with the
\* invalid-token error and changes no stored password.
C10_ResetOnlyWithLiveToken ==
    [][/\ \A p \in Procs, t \in Tokens, np \in Passwords :
            (ResetPasswordPost(p, t, np, np) /\ CacheKey(t) \notin DOMAIN cache)
            => /\ done' = Done("reset", t, None, invalid_token_response)
               /\ proc' = proc
               /\ users' = users
       /\ \A p \in Procs :
            (proc[p].pc = "idle" /\ proc'[p].pc # "idle" /\ proc'[p].op = "reset")
            => /\ proc'[p].pc = "verify_delete"
               /\ Entry(cache, proc'[p].token)[1] = proc'[p].email
       /\ \A p \in Procs :
            (proc[p].op = "reset" /\ proc'[p].op = "reset")
            => proc'[p].email = proc[p].email
       /\ \A a \in DOMAIN users :
            users'[a] # users[a]
            => \E p \in Procs :
                /\ proc[p].op = "reset"
                /\ proc[p].pc = "set_password"
                /\ proc[p].email = a
                /\ proc'[p].pc = "idle"
                /\ users'[a] = set_password(proc[p].new_password)
      ]_vars

\* C10 witness: a reset-password request succeeded for an account whose
\* stored password is now the hash of the new password, and the other
\* account still has its old one.
C10_Witness ==
    /\ done.op = "reset"
    /\ done.resp.status = 200
    /\ done.ret \in DOMAIN users
    /\ users[done.ret] = set_password("new")
    /\ \E a \in DOMAIN users : users[a] = set_password("old")

----------------------------------------------------------------------------
(* Properties of registration, checked under RegistrationSpec *)

\* C11: a registration request whose password and password_confirm differ
\* is answered 400 and creates no user: the user table is unchanged.
C11_MismatchCreatesNoUser ==
    [][\A p \in Procs, e \in EmailInputs, pw \in Passwords, pc \in ConfirmInputs :
            (RegisterPost(p, e, pw, pc) /\ pw # pc)
            => /\ users' = users
               /\ done'.op = "register"
               /\ done'.resp.status = 400
      ]_vars

----------------------------------------------------------------------------
(* Properties of the token generator, checked under GenSpec *)

\* The 62 symbols A-Z, a-z, 0-9.
AlphaNumeric ==
    {"A", "B", "C", "D", "E", "F", "G", "H", "I", "J", "K", "L", "M",
     "N", "O", "P", "Q", "R", "S", "T", "U", "V", "W", "X", "Y", "Z",
     "a", "b", "c", "d", "e", "f", "g", "h", "i", "j", "k", "l", "m",
     "n", "o", "p", "q", "r", "s", "t", "u", "v", "w", "x", "y", "z",
     "0", "1", "2", "3", "4", "5", "6", "7", "8", "9"}

\* C12: for every length L >= 1, generate_reset_token(L) returns exactly L
\* characters, each of them one of the 62 symbols A-Z, a-z, 0-9.
C12_TokenLengthAndAlphabet ==
    (gen.pc = "returned" /\ gen.length >= 1)
    => /\ Len(gen.out) = gen.length
       /\ \A i \in 1..Len(gen.out) : gen.out[i] \in AlphaNumeric
       /\ Cardinality(AlphaNumeric) = 62

\* C12 witness: a token of the greatest length was returned, with a digit
\* first and a letter last.
C12_Witness ==
    /\ gen.pc = "returned"
    /\ gen.length = MaxLength
    /\ Len(gen.out) = MaxLength
    /\ gen.out[1] \in secrets_choice(digits)
    /\ gen.out[MaxLength] \in secrets_choice(ascii_letters)

----------------------------------------------------------------------------
(* Properties of request validation in reset-password, checked under RegistrationSpec *)

\* C15: a reset-password request that fails validation (new_password differs
\* from confirm_password, or a field is missing) is answered 400 without a
\* call of verify_reset_token: the token it names is not looked up and not
\* consumed, and no password changes.
C15_InvalidRequestKeepsToken ==
    [][\A p \in Procs, t \in ResetTokenInputs, np \in ResetPasswordInputs,
          cp \in ResetConfirmInputs :
            ( /\ np # cp \/ t = None \/ np = None \/ cp = None
              /\ ResetPasswordPost(p, t, np, cp) )
            => /\ done'.op = "reset"
               /\ done'.resp.status = 400
               /\ done'.resp # invalid_token_response
               /\ proc' = proc
               /\ cache' = cache
               /\ redeemCount' = redeemCount
               /\ users' = users
      ]_vars

\* C15 witness: a request with passwords that differ was answered 400 and
\* the token it named is still in the cache, bound to its email.
C15_Witness ==
    /\ done.op = "reset"
    /\ done.resp = Response(400, "Passwords don't match")
    /\ done.token \in DOMAIN lastIssue
    /\ redeemCount[done.token] = 0
    /\ verify_lookup(cache, done.token) = lastIssue[done.token].email

----------------------------------------------------------------------------
(* The life of one cache entry, checked under StoreSpec *)

\* C13: the cache entry of a token changes in three ways only: it is created
\* by the store of a token that was never stored before, it is removed by a
\* redeem of that token, or it is removed when its deadline is reached. So
\* the email and deadline of a live entry are never replaced, and a token
\* that was consumed or has expired does not become live again.
C13_CreateThenConsumeOrExpire ==
    [][\A t \in Tokens :
            Entry(cache', t) # Entry(cache, t)
            => \/ /\ CacheKey(t) \notin DOMAIN cache
                  /\ t \notin DOMAIN lastIssue
                  /\ CacheKey(t) \in DOMAIN cache'
                  /\ t \in DOMAIN lastIssue'
               \/ /\ CacheKey(t) \in DOMAIN cache
                  /\ CacheKey(t) \notin DOMAIN cache'
                  /\ redeemCount'[t] = redeemCount[t] + 1
               \/ /\ CacheKey(t) \in DOMAIN cache
                  /\ CacheKey(t) \notin DOMAIN cache'
                  /\ now' > now
                  /\ now' >= cache[CacheKey(t)].deadline
      ]_vars

----------------------------------------------------------------------------
(* Progress of the token store, checked under LiveSpec *)

\* C14: a token that is in the cache is in time out of it, removed by a redeem
\* or by its deadline, and a call of verify_reset_token that has read an entry
\* comes to its end; store_reset_token is one step and ends with it.
C14_EveryTokenRemoved ==
    /\ \A t \in Tokens :
            (CacheKey(t) \in DOMAIN cache) ~> (CacheKey(t) \notin DOMAIN cache)
    /\ \A p \in Procs :
            (proc[p].pc = "verify_delete") ~> (proc[p].pc = "idle")

\* One token was removed by a redeem before its deadline, another by its
\* deadline with no redeem.
C14_Witness ==
    \E t, o \in DOMAIN lastIssue :
        /\ redeemCount[t] = 1
        /\ now < lastIssue[t].until
        /\ CacheKey(t) \notin DOMAIN cache
        /\ redeemCount[o] = 0
        /\ now >= lastIssue[o].until
        /\ CacheKey(o) \notin DOMAIN cache

====
